---------------------------- MODULE Spec2Model ----------------------------
(***************************************************************************)
(* The session state machine of AuthProvider                               *)
(* (packages/auth-provider/src/components/AuthProvider/AuthProvider.tsx).  *)
(*                                                                         *)
(* State: the React state authState, the four useLocalStorage slots, the   *)
(* one-shot ref of the bootstrap effect, and one record per asynchronous   *)
(* call in flight (the bootstrap effect's async body and the callers'      *)
(* login / logout / getAccessToken calls).  Every `await` of the source is *)
(* a suspension point: the code between two awaits is one atomic action.   *)
(* The outcome of an awaited collaborator (resolved value or rejection) is *)
(* an input of the action that resumes after it.                           *)
(***************************************************************************)
EXTENDS Integers, Sequences, FiniteSets, TLC

(***************************************************************************)
(* Bounds of the model.                                                    *)
(***************************************************************************)
\* number of operations (the callers' calls and the bootstrap effect's async
\* body) that may be in flight at the same time
MaxInFlight == 2
\* number of login attempts (each draws one fresh uuid nonce)
MaxLogins == 2
\* number of distinct access/refresh pairs the refresh endpoint may issue
MaxGen == 1

(***************************************************************************)
(* Values.                                                                 *)
(***************************************************************************)
\* an absent persisted slot (useLocalStorage yields null)
Null == [kind |-> "null"]
\* authState.user when no user is set
NoUser == [kind |-> "undefined"]
\* a key omitted from the object given to setAuthState
Undefined == "<undefined>"

EXPIRED_SESSION == "expired session"
LOGIN_ERROR == "login failed"
LOGOUT_SESSION == "logout"
ACCESS_TOKEN_ERROR == "access token error"

PASSWORD == "password"
CODE == "code"
AuthTypes == {PASSWORD, CODE}

Usernames == {"alice", "bob"}
UserIds == {"u1", "u2"}
Codes == {"C1", "C2"}
\* generations of the access/refresh pairs a refresh may return (the token
\* exchange issues generation 0)
Gens == 1..MaxGen

\* the n-th uuid drawn (0: the nonce of a previous page load)
Nonce(n) == [kind |-> "nonce", n |-> n]
\* Tokens are opaque bearer strings.  An identity token is told apart by the
\* nonce of the token exchange that issued it, an access or refresh token by
\* the generation of its pair.  What a token's claims are is the validator's
\* answer (Claims).
IdTok(n) == [kind |-> "id", nonce |-> n]
AccessTok(g) == [kind |-> "access", gen |-> g]
RefreshTok(g) == [kind |-> "refresh", gen |-> g]
\* the payload of a decoded jwt: its user-id claim (possibly empty) and its
\* username claim
Claims == [userId : UserIds \cup {""}, username : Usernames]

\* what the persisted slots may hold when the provider is constructed:
\* nothing, a previous session, a previous session without an access token,
\* and leftovers without an identity token
InitStores ==
  { [idToken |-> Null, accessToken |-> Null, refreshToken |-> Null, nonce |-> Null],
    [idToken |-> IdTok(0), accessToken |-> AccessTok(0),
     refreshToken |-> RefreshTok(0), nonce |-> Nonce(0)],
    [idToken |-> IdTok(0), accessToken |-> Null,
     refreshToken |-> RefreshTok(0), nonce |-> Nonce(0)],
    [idToken |-> Null, accessToken |-> AccessTok(0),
     refreshToken |-> RefreshTok(0), nonce |-> Nonce(0)] }

(***************************************************************************)
(* Outcomes of the awaited collaborators.  "throw" is a rejected promise.  *)
(***************************************************************************)
\* verifyAndExtractToken(token): a decoded jwt, a falsy value, or a throw
VerifyOutcomes == {"jwt", "none", "throw"}
\* logoutUser(...): the returned value is ignored by the caller
LogoutUserOutcomes == {"ok", "throw"}
\* pkceChallengePair()
PkceOutcomes == {"ok", "throw"}
\* getPreAuthCode(...): {status: true, code}, {status: false}, or a throw
PreAuthOutcomes == {"ok", "reject", "throw"}
\* authenticateUser(...): {status: true, tokens, userId}, {status: false}, or a throw
AuthenticateOutcomes == {"ok", "reject", "throw"}
\* tokenManager.refreshtoken(...): {status: "success", pair}, another status, or a throw
RefreshOutcomes == {"success", "failure", "throw"}

(***************************************************************************)
(* Variables.                                                              *)
(***************************************************************************)
VARIABLES
  authState,        \* useState<AuthState>
  idToken,          \* useLocalStorage ...@@user@@
  accessToken,      \* useLocalStorage ...@@access@@
  refreshToken,     \* useLocalStorage ...@@refresh@@
  nonce,            \* useLocalStorage ...@@nonce@@
  effectDidRunRef,  \* useRef(false)
  effect,           \* the bootstrap effect: its scheduling and its async body
  calls,            \* the callers' calls of login / logout / getAccessToken
  uuidCount         \* how many uuidv4() values have been drawn

vars == <<authState, idToken, accessToken, refreshToken, nonce,
          effectDidRunRef, effect, calls, uuidCount>>

CallIds == 1..MaxInFlight

\* the session as the rest of the application sees it: the React state and
\* the four persisted slots
Session ==
  [authState |-> authState, idToken |-> idToken, accessToken |-> accessToken,
   refreshToken |-> refreshToken, nonce |-> nonce]

Put(s) ==
  /\ authState' = s.authState
  /\ idToken' = s.idToken
  /\ accessToken' = s.accessToken
  /\ refreshToken' = s.refreshToken
  /\ nonce' = s.nonce

\* a remote / collaborator call made by a process, with the arguments the
\* properties look at
Call(fn, n, code) == [fn |-> fn, nonce |-> n, code |-> code]

(***************************************************************************)
(* Session transformers (the synchronous pieces of the handlers).          *)
(***************************************************************************)
InitialAuthState ==
  [isLoading |-> TRUE, isAuthenticated |-> FALSE, user |-> NoUser,
   logoutReason |-> ""]

\* removeStateAndLocalStorage without `user: undefined`
removeStateAndLocalStorage_keepsUser(s, logoutReason) ==
  [authState |->
     [isLoading |-> TRUE, isAuthenticated |-> FALSE, user |-> s.authState.user,
      logoutReason |-> IF logoutReason \in {"", Undefined}
                         THEN EXPIRED_SESSION ELSE logoutReason],
   idToken |-> Null, accessToken |-> Null, refreshToken |-> Null,
   nonce |-> Null]

\* removeStateAndLocalStorage without removeNonce()
removeStateAndLocalStorage_keepsNonce(s, logoutReason) ==
  [authState |->
     [isLoading |-> TRUE, isAuthenticated |-> FALSE, user |-> NoUser,
      logoutReason |-> IF logoutReason \in {"", Undefined}
                         THEN EXPIRED_SESSION ELSE logoutReason],
   idToken |-> Null, accessToken |-> Null, refreshToken |-> Null,
   nonce |-> s.nonce]

\* removeStateAndLocalStorage whose removals short-circuit
\* (removeIdToken() || removeAccessToken() || ...): only the first slot that
\* holds something is removed
removeStateAndLocalStorage_firstOnly(s, logoutReason) ==
  [authState |->
     [isLoading |-> TRUE, isAuthenticated |-> FALSE, user |-> NoUser,
      logoutReason |-> IF logoutReason \in {"", Undefined}
                         THEN EXPIRED_SESSION ELSE logoutReason],
   idToken |-> Null,
   accessToken |-> IF s.idToken # Null THEN s.accessToken ELSE Null,
   refreshToken |-> IF s.idToken # Null \/ s.accessToken # Null
                      THEN s.refreshToken ELSE Null,
   nonce |-> IF s.idToken # Null \/ s.accessToken # Null \/ s.refreshToken # Null
               THEN s.nonce ELSE Null]

\* lines 60-75; `logoutReason || EXPIRED_SESSION`: "" and undefined are falsy
removeStateAndLocalStorage(s, logoutReason) ==
  [authState |->
     [isLoading |-> TRUE, isAuthenticated |-> FALSE, user |-> NoUser,
      logoutReason |-> IF logoutReason \in {"", Undefined}
                         THEN EXPIRED_SESSION ELSE logoutReason],
   idToken |-> Null, accessToken |-> Null, refreshToken |-> Null,
   nonce |-> Null]

\* setAuthState((prev) => ({...prev, isLoading: v}))  (lines 86-89, 125-128, 138-141)
setIsLoading(s, v) == [s EXCEPT !.authState.isLoading = v]

\* the part of invalidateAndLogout before its await (line 79)
invalidateAndLogoutBegin(s, message) ==
  removeStateAndLocalStorage(s, IF message = "" THEN EXPIRED_SESSION ELSE message)

\* the part of invalidateAndLogout after its await (lines 86-89)
invalidateAndLogoutEnd(s) == setIsLoading(s, FALSE)



(***************************************************************************)
(* Processes.                                                              *)
(***************************************************************************)
\* results of a settled call
Pending == [kind |-> "pending"]
Void == [kind |-> "void"]
Thrown == [kind |-> "throw"]
Bool(b) == [kind |-> "bool", v |-> b]
EmptyString == [kind |-> "string", v |-> ""]

NoCapture == [kind |-> "none"]

Idle ==
  [op |-> "none", pc |-> "idle", username |-> "", type |-> "", n |-> Null,
   code |-> "", cap |-> NoCapture, ret |-> Pending, log |-> <<>>]

InitialEffect ==
  [pc |-> "init", pending |-> FALSE, hasCleanup |-> FALSE, bodyRuns |-> 0,
   log |-> <<>>]

\* the dependency array of the bootstrap effect (line 133); invalidateAndLogout
\* is a useCallback over accessToken, clientId, idToken, refreshToken (line 91)
Deps == <<authState.isLoading, idToken, accessToken, refreshToken>>

\* React re-runs the effect after a commit that changed a dependency
Scheduled(e) == [e EXCEPT !.pending = @ \/ Deps' # Deps]

Free(c) == calls[c].pc \in {"idle", "done"}
InFlight(c) == ~Free(c)
EffectInFlight == effect.pc \in {"verify", "logout", "logoutCatch"}
Mounted == effect.pc # "init"
\* React flushes the effects of a commit before it handles anything else
Committed == Mounted /\ ~effect.pending
NumInFlight ==
  Cardinality({c \in CallIds : InFlight(c)}) + (IF EffectInFlight THEN 1 ELSE 0)
\* a caller takes the first free call record
CanStart(c) ==
  /\ Committed
  /\ NumInFlight < MaxInFlight
  /\ Free(c)
  /\ \A d \in CallIds : d < c => InFlight(d)

\* a settled call's record shows what the call returned in the state in which
\* it settled; its caller has it from then on and the record is free again
Collected == [c \in CallIds |-> IF calls[c].pc = "done" THEN Idle ELSE calls[c]]

\* the call record r settles with result ret
Finish(r, ret) ==
  [Idle EXCEPT !.op = r.op, !.pc = "done", !.ret = ret, !.log = r.log,
               !.username = r.username, !.type = r.type]
Logged(r, call) == [r EXCEPT !.log = Append(@, call)]

Init ==
  /\ authState = InitialAuthState
  /\ \E st \in InitStores :
       /\ idToken = st.idToken
       /\ accessToken = st.accessToken
       /\ refreshToken = st.refreshToken
       /\ nonce = st.nonce
  /\ effectDidRunRef = FALSE
  /\ effect = InitialEffect
  /\ calls = [c \in CallIds |-> Idle]
  /\ uuidCount = 0

(***************************************************************************)
(* The bootstrap effect (lines 99-133).                                    *)
(***************************************************************************)
\* the cleanup returned by a run of the effect (lines 130-132): the new value
\* of effectDidRunRef.current
effectCleanup(ref) == TRUE

\* a guard that never suppresses the effect
effectGuard_never(ref) == FALSE

\* the guard of the effect (lines 100-102)
effectGuard(ref) == ref

\* jwtAccepted with the test of the user-id claim inverted
jwtAccepted_emptyUserId(o, claims) == o = "jwt" /\ claims.userId = ""

\* jwt && jwt.payload[JWT.USER_ID_KEY] !== ""   (lines 107, 221)
jwtAccepted(o, claims) == o = "jwt" /\ claims.userId # ""

\* bootstrapAuthenticated with the two claims taken from the wrong keys
bootstrapAuthenticated_swapped(s, claims) ==
  [s EXCEPT !.authState =
     [isLoading |-> FALSE, isAuthenticated |-> TRUE,
      user |-> [userId |-> claims.username, username |-> claims.userId],
      logoutReason |-> ""]]

\* the state set when the persisted identity token is accepted (lines 108-116)
bootstrapAuthenticated(s, claims) ==
  [s EXCEPT !.authState =
     [isLoading |-> FALSE, isAuthenticated |-> TRUE,
      user |-> [userId |-> claims.userId, username |-> claims.username],
      logoutReason |-> ""]]

\* One run of the effect callback: React first runs the cleanup of the
\* previous run, if that run returned one, then the callback.
useEffect ==
  /\ ~Mounted \/ effect.pending
  /\ LET ref == IF effect.hasCleanup THEN effectCleanup(effectDidRunRef)
                                     ELSE effectDidRunRef
     IN
     /\ effectDidRunRef' = ref
     /\ IF effectGuard(ref)
          THEN /\ UNCHANGED <<authState, idToken, accessToken, refreshToken, nonce>>
               /\ effect' = [effect EXCEPT !.pending = FALSE, !.hasCleanup = FALSE]
          ELSE IF authState.isLoading /\ idToken # Null
            THEN /\ UNCHANGED <<authState, idToken, accessToken, refreshToken, nonce>>
                 /\ effect' = [effect EXCEPT !.pc = "verify",
                                 !.pending = FALSE, !.hasCleanup = TRUE,
                                 !.bodyRuns = @ + 1,
                                 !.log = Append(@, Call("verifyAndExtractToken", Null, ""))]
            ELSE /\ Put(setIsLoading(Session, FALSE))
                 /\ effect' = [effect EXCEPT !.pc = IF EffectInFlight THEN @ ELSE "done",
                                 !.pending = (Deps' # Deps), !.hasCleanup = TRUE,
                                 !.bodyRuns = @ + 1]
  /\ calls' = Collected
  /\ UNCHANGED uuidCount

\* lines 106-122: verifyAndExtractToken(idToken) settles
bootstrapVerified(o, claims) ==
  /\ Committed
  /\ effect.pc = "verify"
  /\ IF jwtAccepted(o, claims)
       THEN /\ Put(bootstrapAuthenticated(Session, claims))
            /\ effect' = Scheduled([effect EXCEPT !.pc = "done"])
       ELSE /\ Put(invalidateAndLogoutBegin(Session, EXPIRED_SESSION))
            /\ effect' = Scheduled([effect EXCEPT
                           !.pc = IF o = "throw" THEN "logoutCatch" ELSE "logout",
                           !.log = Append(@, Call("logoutUser", Null, ""))])
  /\ calls' = Collected
  /\ UNCHANGED <<effectDidRunRef, uuidCount>>

\* lines 118-122: the logoutUser awaited inside invalidateAndLogout settles;
\* a rejection in the try block is caught (line 120) and invalidateAndLogout is
\* called again; a rejection in the catch block leaves the async body rejected
bootstrapLoggedOut(o) ==
  /\ Committed
  /\ effect.pc \in {"logout", "logoutCatch"}
  /\ IF o = "ok"
       THEN /\ Put(invalidateAndLogoutEnd(Session))
            /\ effect' = Scheduled([effect EXCEPT !.pc = "done"])
       ELSE IF effect.pc = "logout"
         THEN /\ Put(invalidateAndLogoutBegin(Session, EXPIRED_SESSION))
              /\ effect' = Scheduled([effect EXCEPT !.pc = "logoutCatch",
                             !.log = Append(@, Call("logoutUser", Null, ""))])
         ELSE /\ UNCHANGED <<authState, idToken, accessToken, refreshToken, nonce>>
              /\ effect' = [effect EXCEPT !.pc = "failed"]
  /\ calls' = Collected
  /\ UNCHANGED <<effectDidRunRef, uuidCount>>

(***************************************************************************)
(* logout (lines 210-213) through invalidateAndLogout (lines 77-92).       *)
(***************************************************************************)
logoutStart(c) ==
  /\ CanStart(c)
  /\ Put(invalidateAndLogoutBegin(Session, LOGOUT_SESSION))
  /\ calls' = [Collected EXCEPT ![c] =
       [Idle EXCEPT !.op = "logout", !.pc = "logoutUser",
                    !.log = <<Call("logoutUser", Null, "")>>]]
  /\ effect' = Scheduled(effect)
  /\ UNCHANGED <<effectDidRunRef, uuidCount>>

logoutSettled(c, o) ==
  /\ Committed
  /\ calls[c].op = "logout" /\ calls[c].pc = "logoutUser"
  /\ IF o = "ok"
       THEN /\ Put(invalidateAndLogoutEnd(Session))
            /\ calls' = [Collected EXCEPT ![c] = Finish(@, Void)]
       ELSE /\ UNCHANGED <<authState, idToken, accessToken, refreshToken, nonce>>
            /\ calls' = [Collected EXCEPT ![c] = Finish(@, Thrown)]
  /\ effect' = Scheduled(effect)
  /\ UNCHANGED <<effectDidRunRef, uuidCount>>

(***************************************************************************)
(* login (lines 135-208).                                                  *)
(***************************************************************************)
\* lines 136-141, then the first awaited call (line 144 or line 184)
loginStart(c, username, type) ==
  /\ CanStart(c)
  /\ uuidCount < MaxLogins
  /\ uuidCount' = uuidCount + 1
  /\ LET _nonce == Nonce(uuidCount + 1) IN
     /\ Put(setIsLoading([Session EXCEPT !.nonce = _nonce], TRUE))
     /\ calls' = [Collected EXCEPT ![c] =
          [Idle EXCEPT !.op = "login", !.username = username, !.type = type,
                       !.n = _nonce,
                       !.pc = IF type = CODE THEN "pkce" ELSE "authenticate",
                       !.log = IF type = CODE
                                 THEN <<Call("pkceChallengePair", Null, "")>>
                                 ELSE <<Call("authenticateUser", _nonce, "")>>]]
  /\ effect' = Scheduled(effect)
  /\ UNCHANGED effectDidRunRef

\* line 144 settles; line 146 calls getPreAuthCode
loginPkceSettled(c, o) ==
  /\ Committed
  /\ calls[c].op = "login" /\ calls[c].pc = "pkce"
  /\ calls' = [Collected EXCEPT ![c] =
       IF o = "ok"
         THEN Logged([@ EXCEPT !.pc = "preAuth"], Call("getPreAuthCode", @.n, ""))
         ELSE Finish(@, Thrown)]
  /\ UNCHANGED <<authState, idToken, accessToken, refreshToken, nonce,
                 effectDidRunRef, effect, uuidCount>>

\* loginPreAuthSettled that does not pass preResponse.code to authenticateUser
loginPreAuthSettled_dropsCode(c, o, code) ==
  /\ Committed
  /\ calls[c].op = "login" /\ calls[c].pc = "preAuth"
  /\ calls' = [Collected EXCEPT ![c] =
       CASE o = "ok" ->
              Logged([@ EXCEPT !.pc = "authenticate", !.code = code],
                     Call("authenticateUser", @.n, ""))
         [] o = "reject" -> Finish(@, Bool(FALSE))
         [] OTHER -> Finish(@, Thrown)]
  /\ UNCHANGED <<authState, idToken, accessToken, refreshToken, nonce,
                 effectDidRunRef, effect, uuidCount>>

\* lines 146-182: getPreAuthCode settles; on status true authenticateUser is
\* called with the returned code, otherwise login returns false (line 181)
loginPreAuthSettled(c, o, code) ==
  /\ Committed
  /\ calls[c].op = "login" /\ calls[c].pc = "preAuth"
  /\ calls' = [Collected EXCEPT ![c] =
       CASE o = "ok" ->
              Logged([@ EXCEPT !.pc = "authenticate", !.code = code],
                     Call("authenticateUser", @.n, code))
         [] o = "reject" -> Finish(@, Bool(FALSE))
         [] OTHER -> Finish(@, Thrown)]
  /\ UNCHANGED <<authState, idToken, accessToken, refreshToken, nonce,
                 effectDidRunRef, effect, uuidCount>>

\* loginSuccessState that leaves isLoading set
loginSuccessState_stillLoading(type, userId, username) ==
  [isLoading |-> TRUE, isAuthenticated |-> TRUE,
   user |-> [userId |-> userId, username |-> username],
   logoutReason |-> IF type = CODE THEN "" ELSE Undefined]

\* the object given to setAuthState on success: lines 167-175 (CODE) carry
\* logoutReason: "", lines 196-203 (PASSWORD) omit the key
loginSuccessState(type, userId, username) ==
  [isLoading |-> FALSE, isAuthenticated |-> TRUE,
   user |-> [userId |-> userId, username |-> username],
   logoutReason |-> IF type = CODE THEN "" ELSE Undefined]

\* lines 164-175 and 193-203: the response's tokens are persisted (the token
\* exchange binds the identity token to the nonce it was sent) and the user set
loginSucceeded(s, r, userId) ==
  [s EXCEPT !.idToken = IdTok(r.n.n),
            !.accessToken = AccessTok(0),
            !.refreshToken = RefreshTok(0),
            !.authState = loginSuccessState(r.type, userId, r.username)]

\* lines 163-179 (CODE) and 192-207 (PASSWORD): authenticateUser settles
loginAuthenticateSettled(c, o, userId) ==
  /\ Committed
  /\ calls[c].op = "login" /\ calls[c].pc = "authenticate"
  /\ CASE o = "ok" ->
            /\ Put(loginSucceeded(Session, calls[c], userId))
            /\ calls' = [Collected EXCEPT ![c] = Finish(@, Bool(TRUE))]
       [] o = "reject" ->
            /\ Put(removeStateAndLocalStorage(Session, LOGIN_ERROR))
            /\ calls' = [Collected EXCEPT ![c] = Finish(@, Bool(FALSE))]
       [] OTHER ->
            /\ UNCHANGED <<authState, idToken, accessToken, refreshToken, nonce>>
            /\ calls' = [Collected EXCEPT ![c] = Finish(@, Thrown)]
  /\ effect' = Scheduled(effect)
  /\ UNCHANGED <<effectDidRunRef, uuidCount>>

(***************************************************************************)
(* getAccessToken (lines 215-251).                                         *)
(***************************************************************************)
\* isAuthenticated && user && user.userId   (line 218)
isAuthenticatedUser(as) ==
  /\ as.isAuthenticated
  /\ as.user # NoUser
  /\ as.user.userId # ""

\* The function closes over authState, accessToken and nonce (lines 216, 219,
\* 232): it works on the values of the render it was taken from, kept in cap.
getAccessTokenStart(c) ==
  /\ CanStart(c)
  /\ LET r == [Idle EXCEPT !.op = "getAccessToken",
                           !.cap = [accessToken |-> accessToken, nonce |-> nonce]]
     IN
     IF isAuthenticatedUser(authState)
       THEN /\ UNCHANGED <<authState, idToken, accessToken, refreshToken, nonce>>
            /\ calls' = [Collected EXCEPT ![c] =
                 IF accessToken # Null
                   THEN Logged([r EXCEPT !.pc = "verify"],
                               Call("verifyAndExtractToken", Null, ""))
                   ELSE Logged([r EXCEPT !.pc = "refresh"],
                               Call("refreshtoken", nonce, ""))]
       ELSE /\ Put(invalidateAndLogoutBegin(Session, ACCESS_TOKEN_ERROR))
            /\ calls' = [Collected EXCEPT ![c] =
                 Logged([r EXCEPT !.pc = "logout"], Call("logoutUser", Null, ""))]
  /\ effect' = Scheduled(effect)
  /\ UNCHANGED <<effectDidRunRef, uuidCount>>

\* lines 220-233 and 247-248: verifyAndExtractToken(accessToken) settles
getAccessTokenVerified(c, o, claims) ==
  /\ Committed
  /\ calls[c].op = "getAccessToken" /\ calls[c].pc = "verify"
  /\ LET r == calls[c] IN
     CASE jwtAccepted(o, claims) ->
            /\ UNCHANGED <<authState, idToken, accessToken, refreshToken, nonce>>
            /\ calls' = [Collected EXCEPT ![c] = Finish(@, r.cap.accessToken)]
       [] ~jwtAccepted(o, claims) /\ o # "throw" ->
            /\ UNCHANGED <<authState, idToken, accessToken, refreshToken, nonce>>
            /\ calls' = [Collected EXCEPT ![c] =
                 Logged([@ EXCEPT !.pc = "refresh"],
                        Call("refreshtoken", r.cap.nonce, ""))]
       [] OTHER ->
            /\ Put(invalidateAndLogoutBegin(Session, ACCESS_TOKEN_ERROR))
            /\ calls' = [Collected EXCEPT ![c] =
                 Logged([@ EXCEPT !.pc = "logoutCatch"], Call("logoutUser", Null, ""))]
  /\ effect' = Scheduled(effect)
  /\ UNCHANGED <<effectDidRunRef, uuidCount>>

\* tokensRefreshed without setRefreshToken(res.newRefreshToken)
tokensRefreshed_accessOnly(s, g) ==
  [s EXCEPT !.accessToken = AccessTok(g)]

\* lines 235-236: the rotated pair is persisted
tokensRefreshed(s, g) ==
  [s EXCEPT !.accessToken = AccessTok(g), !.refreshToken = RefreshTok(g)]

\* lines 229-242 and 247-248: tokenManager.refreshtoken settles
getAccessTokenRefreshed(c, o, g) ==
  /\ Committed
  /\ calls[c].op = "getAccessToken" /\ calls[c].pc = "refresh"
  /\ CASE o = "success" ->
            /\ Put(tokensRefreshed(Session, g))
            /\ calls' = [Collected EXCEPT ![c] = Finish(@, AccessTok(g))]
       [] OTHER ->
            /\ Put(invalidateAndLogoutBegin(Session, ACCESS_TOKEN_ERROR))
            /\ calls' = [Collected EXCEPT ![c] =
                 Logged([@ EXCEPT !.pc = IF o = "throw" THEN "logoutCatch" ELSE "logout"],
                        Call("logoutUser", Null, ""))]
  /\ effect' = Scheduled(effect)
  /\ UNCHANGED <<effectDidRunRef, uuidCount>>

\* lines 242-249: the logoutUser awaited inside invalidateAndLogout settles;
\* a rejection inside the try block is caught and invalidateAndLogout is called
\* again (line 248); a rejection inside the catch block rejects getAccessToken
getAccessTokenLoggedOut(c, o) ==
  /\ Committed
  /\ calls[c].op = "getAccessToken" /\ calls[c].pc \in {"logout", "logoutCatch"}
  /\ CASE o = "ok" ->
            /\ Put(invalidateAndLogoutEnd(Session))
            /\ calls' = [Collected EXCEPT ![c] = Finish(@, EmptyString)]
       [] o # "ok" /\ calls[c].pc = "logout" ->
            /\ Put(invalidateAndLogoutBegin(Session, ACCESS_TOKEN_ERROR))
            /\ calls' = [Collected EXCEPT ![c] =
                 Logged([@ EXCEPT !.pc = "logoutCatch"], Call("logoutUser", Null, ""))]
       [] OTHER ->
            /\ UNCHANGED <<authState, idToken, accessToken, refreshToken, nonce>>
            /\ calls' = [Collected EXCEPT ![c] = Finish(@, Thrown)]
  /\ effect' = Scheduled(effect)
  /\ UNCHANGED <<effectDidRunRef, uuidCount>>

(***************************************************************************)
(* Specifications.                                                         *)
(***************************************************************************)
\* a step of a call that is already running, or of the bootstrap effect
Resume ==
  \/ useEffect
  \/ \E o \in VerifyOutcomes, cl \in Claims : bootstrapVerified(o, cl)
  \/ \E o \in LogoutUserOutcomes : bootstrapLoggedOut(o)
  \/ \E c \in CallIds, o \in LogoutUserOutcomes : logoutSettled(c, o)
  \/ \E c \in CallIds, o \in PkceOutcomes : loginPkceSettled(c, o)
  \/ \E c \in CallIds, o \in PreAuthOutcomes, code \in Codes :
       loginPreAuthSettled(c, o, code)
  \/ \E c \in CallIds, o \in AuthenticateOutcomes, u \in UserIds :
       loginAuthenticateSettled(c, o, u)
  \/ \E c \in CallIds, o \in VerifyOutcomes, cl \in Claims :
       getAccessTokenVerified(c, o, cl)
  \/ \E c \in CallIds, o \in RefreshOutcomes, g \in Gens :
       getAccessTokenRefreshed(c, o, g)
  \/ \E c \in CallIds, o \in LogoutUserOutcomes : getAccessTokenLoggedOut(c, o)

\* a caller calls one of the exposed functions
Start ==
  \/ \E c \in CallIds : logoutStart(c)
  \/ \E c \in CallIds, u \in Usernames, t \in AuthTypes : loginStart(c, u, t)
  \/ \E c \in CallIds : getAccessTokenStart(c)

Next == Start \/ Resume

\* callers may call at any time: calls overlap each other and the bootstrap
Spec == Init /\ [][Next]_vars

\* no operation is in flight
Quiescent == ~EffectInFlight /\ \A c \in CallIds : Free(c)

SeqNext == (Quiescent /\ Start) \/ Resume

\* callers serialize: a call starts only when no other operation is in flight
SpecSeq == Init /\ [][SeqNext]_vars


(***************************************************************************)
(* Vocabulary of the properties.                                           *)
(***************************************************************************)
\* the phases of the session, read off the two flags of authState
Loading == authState.isLoading
Authenticated == ~authState.isLoading /\ authState.isAuthenticated
Unauthenticated == ~authState.isLoading /\ ~authState.isAuthenticated

BothFlags == authState.isLoading /\ authState.isAuthenticated

AllSlotsAbsent ==
  idToken = Null /\ accessToken = Null /\ refreshToken = Null /\ nonce = Null

\* what Invalidate leaves: no persisted slot, no user, not authenticated
Invalidated ==
  AllSlotsAbsent /\ authState.user = NoUser /\ ~authState.isAuthenticated

Reasons == {EXPIRED_SESSION, LOGIN_ERROR, LOGOUT_SESSION, ACCESS_TOKEN_ERROR}

\* call record r has just settled (the record is dropped at the next step)
Settled(r, op) == r.op = op /\ r.pc = "done"
HasCalled(r, fn) == \E i \in 1..Len(r.log) : r.log[i].fn = fn
LastCall(r) == r.log[Len(r.log)]

\* how many times call record r has called collaborator fn
Count(r, fn) == Cardinality({i \in 1..Len(r.log) : r.log[i].fn = fn})

\* the steps that apply Invalidate: every call of removeStateAndLocalStorage
\* (lines 178, 206) and of invalidateAndLogout (lines 118, 121, 212, 242, 245, 248)
InvalidateStep ==
  \/ \E c \in CallIds : logoutStart(c)
  \/ \E o \in VerifyOutcomes, cl \in Claims :
       ~jwtAccepted(o, cl) /\ bootstrapVerified(o, cl)
  \/ effect.pc = "logout" /\ bootstrapLoggedOut("throw")
  \/ \E c \in CallIds, u \in UserIds : loginAuthenticateSettled(c, "reject", u)
  \/ \E c \in CallIds : ~isAuthenticatedUser(authState) /\ getAccessTokenStart(c)
  \/ \E c \in CallIds, cl \in Claims : getAccessTokenVerified(c, "throw", cl)
  \/ \E c \in CallIds, o \in {"failure", "throw"}, g \in Gens :
       getAccessTokenRefreshed(c, o, g)
  \/ \E c \in CallIds : calls[c].pc = "logout" /\ getAccessTokenLoggedOut(c, "throw")

\* one complete run of logout (lines 210-213 with 77-92) on session s, the
\* awaited logoutUser settling with outcome o: with nothing else in flight the
\* session is s when logoutStart acts and is not touched before logoutSettled
logoutRun(s, o) ==
  IF o = "ok"
    THEN invalidateAndLogoutEnd(invalidateAndLogoutBegin(s, LOGOUT_SESSION))
    ELSE invalidateAndLogoutBegin(s, LOGOUT_SESSION)

(***************************************************************************)
(* Properties.                                                             *)
(***************************************************************************)

\* C1: in every reachable state the user record is present if and only if
\* the session is marked authenticated.
C1_UserIffAuthenticated ==
  (authState.user # NoUser) <=> authState.isAuthenticated

\* C1 witness: a login has just returned true, the user is set and the
\* session is marked authenticated
C1_Witness ==
  /\ \E c \in CallIds : Settled(calls[c], "login") /\ calls[c].ret = Bool(TRUE)
  /\ authState.user # NoUser
  /\ authState.isAuthenticated

\* C2 as stated: isLoading and isAuthenticated are never both true.
C2_FlagsExclusive == ~BothFlags

\* C2 amended: the session starts with the flags not both set, and the only
\* step that sets both is the first step of a login (lines 138-141) taken on a
\* session that is marked authenticated: it sets isLoading and keeps
\* isAuthenticated and user.
C2_BothFlagsOnlyByLoginStart ==
  /\ ~BothFlags
  /\ [][(~BothFlags /\ BothFlags') =>
          /\ authState.isAuthenticated
          /\ authState'.user = authState.user
          /\ \E c \in CallIds, u \in Usernames, t \in AuthTypes : loginStart(c, u, t)]_vars

\* C2 witness: a login is in flight on a session that is still marked
\* authenticated, with the user still set
C2_Witness ==
  /\ BothFlags
  /\ authState.user # NoUser
  /\ \E c \in CallIds : calls[c].op = "login" /\ InFlight(c)

\* C3: in the state immediately after any step that applies Invalidate, the
\* four persisted slots and the user are absent and the session is not
\* authenticated; applying Invalidate to that state again, with any reason,
\* changes nothing but the reason.
C3_InvalidateClearsAndIsIdempotent ==
  [][InvalidateStep =>
       /\ Invalidated'
       /\ authState'.logoutReason \in Reasons
       /\ \A r \in Reasons :
            invalidateAndLogoutBegin(Session', r) =
              [Session' EXCEPT !.authState.logoutReason = r]]_vars

\* C3 witness: a logout called after a login has just applied Invalidate and
\* awaits logoutUser
C3_Witness ==
  /\ \E c \in CallIds : calls[c].op = "logout" /\ calls[c].pc = "logoutUser"
  /\ uuidCount > 0
  /\ Invalidated
  /\ authState.logoutReason = LOGOUT_SESSION

\* C4: when a login returns false, the four persisted slots are absent and
\* logoutReason is "login failed".
C4_LoginFalseInvalidates ==
  \A c \in CallIds :
    (Settled(calls[c], "login") /\ calls[c].ret = Bool(FALSE)) =>
      (AllSlotsAbsent /\ authState.logoutReason = LOGIN_ERROR)

\* C5: when the token exchange rejects the credentials and nothing else is in
\* flight, login returns false and the session is Unauthenticated with
\* logoutReason "login failed".
C5_RejectedLoginEndsUnauthenticated ==
  \A c \in CallIds :
    (/\ Settled(calls[c], "login")
     /\ LastCall(calls[c]).fn = "authenticateUser"
     /\ calls[c].ret = Bool(FALSE)) =>
      /\ Unauthenticated
      /\ authState.user = NoUser
      /\ authState.logoutReason = LOGIN_ERROR

\* C6: login never propagates an exception: a login that settles has returned
\* true or false, and after false the session is invalidated.
C6_LoginNeverThrows ==
  \A c \in CallIds :
    Settled(calls[c], "login") =>
      /\ calls[c].ret \in {Bool(TRUE), Bool(FALSE)}
      /\ (LastCall(calls[c]).fn = "authenticateUser" /\ calls[c].ret = Bool(FALSE))
           => Invalidated

\* C7: when a logout finishes it has not thrown, the four persisted slots are
\* absent and the session is Unauthenticated with logoutReason "logout".
C7_LogoutCompletesTeardown ==
  \A c \in CallIds :
    Settled(calls[c], "logout") =>
      /\ calls[c].ret = Void
      /\ AllSlotsAbsent
      /\ Unauthenticated
      /\ authState.logoutReason = LOGOUT_SESSION

\* C8: logout is idempotent.  From every reachable state, two runs of logout in
\* succession leave the session that one run leaves (whatever logoutUser
\* answers), and the session a logout has just left is one that a further
\* run of logout leaves as it is.
C8_LogoutIdempotent ==
  /\ \A o1, o2 \in LogoutUserOutcomes :
       logoutRun(logoutRun(Session, o1), o2) = logoutRun(Session, o2)
  /\ \A c \in CallIds :
       Settled(calls[c], "logout") =>
         Session = logoutRun(Session, IF calls[c].ret = Void THEN "ok" ELSE "throw")

\* C8 witness: a logout called after a login has run to completion
C8_Witness ==
  /\ \E c \in CallIds : Settled(calls[c], "logout") /\ calls[c].ret = Void
  /\ uuidCount > 0
  /\ Session = logoutRun(Session, "ok")

\* C9: when the validator accepts the persisted identity token with a
\* non-empty user-id claim, the bootstrap ends Authenticated with the user made
\* of the token's userId and username claims and logoutReason ""; when no
\* identity token is persisted, the bootstrap ends Unauthenticated with
\* logoutReason "" at once, and it never calls a collaborator.
C9_BootstrapOutcome ==
  [][/\ \A o \in VerifyOutcomes, cl \in Claims :
          (jwtAccepted(o, cl) /\ bootstrapVerified(o, cl)) =>
            /\ Authenticated'
            /\ authState'.user = [userId |-> cl.userId, username |-> cl.username]
            /\ authState'.logoutReason = ""
            /\ effect'.pc = "done"
     /\ (~Mounted /\ idToken = Null /\ useEffect) =>
            /\ Unauthenticated'
            /\ authState'.user = NoUser
            /\ authState'.logoutReason = ""
            /\ effect'.pc = "done"
            /\ effect'.log = <<>>
     /\ (effect.pc = "done" /\ effect.log = <<>>) =>
            (effect'.pc = "done" /\ effect'.log = <<>>)]_vars

\* C9 witness: the bootstrap has ended on an accepted identity token and no
\* login was ever started
C9_Witness ==
  /\ effect.pc = "done"
  /\ HasCalled(effect, "verifyAndExtractToken")
  /\ ~HasCalled(effect, "logoutUser")
  /\ uuidCount = 0
  /\ Authenticated
  /\ authState.user # NoUser

\* C10: when the persisted identity token is not accepted (invalid, expired,
\* empty user-id claim, or the validator throws), the bootstrap ends
\* Unauthenticated with logoutReason "expired session" and the four persisted
\* slots absent.
C10_BootstrapInvalidates ==
  [][(EffectInFlight /\ ~EffectInFlight' /\ HasCalled(effect, "logoutUser")) =>
       /\ Unauthenticated'
       /\ authState'.logoutReason = EXPIRED_SESSION
       /\ AllSlotsAbsent']_vars

\* C11: the body of the bootstrap effect (the identity-token validation and
\* the state transition it leads to) runs at most once, whatever login, logout
\* and getAccessToken do to its dependencies afterwards: the validator is
\* called at most once by the effect, and once the one-shot ref is set the
\* body has run exactly once.
C11_BootstrapAtMostOnce ==
  /\ effect.bodyRuns <= 1
  /\ Count(effect, "verifyAndExtractToken") <= 1
  /\ effectDidRunRef => effect.bodyRuns = 1

\* C11 witness: a login and then a logout have changed the dependencies of
\* the effect, its re-runs were suppressed and its body has run once
C11_Witness ==
  /\ effectDidRunRef
  /\ effect.bodyRuns = 1
  /\ Committed
  /\ uuidCount > 0
  /\ \E c \in CallIds : Settled(calls[c], "logout")

\* C12: with nothing else in flight, a getAccessToken called on an
\* Authenticated session whose access token is absent, or is answered as not
\* valid by the validator, calls the refresh endpoint exactly once and changes
\* nothing until the answer; when the answer is "success" with a new pair, the
\* access and refresh slots hold the new pair, the call returns the new access
\* token, and the session state, the identity token and the nonce are as
\* before: the session stays Authenticated.
C12_RefreshRotation ==
  [][\A c \in CallIds :
       /\ (Authenticated /\ accessToken = Null /\ getAccessTokenStart(c)) =>
            /\ calls'[c].pc = "refresh"
            /\ Count(calls'[c], "refreshtoken") = 1
            /\ Session' = Session
       /\ \A o \in {"jwt", "none"}, cl \in Claims :
            (/\ Authenticated
             /\ ~(o = "jwt" /\ cl.userId # "")
             /\ getAccessTokenVerified(c, o, cl)) =>
               /\ calls'[c].pc = "refresh"
               /\ Count(calls'[c], "refreshtoken") = 1
               /\ Session' = Session
       /\ \A g \in Gens :
            (Authenticated /\ getAccessTokenRefreshed(c, "success", g)) =>
               /\ accessToken' = AccessTok(g)
               /\ refreshToken' = RefreshTok(g)
               /\ Settled(calls'[c], "getAccessToken")
               /\ calls'[c].ret = AccessTok(g)
               /\ Count(calls'[c], "refreshtoken") = 1
               /\ Authenticated'
               /\ authState' = authState
               /\ idToken' = idToken
               /\ nonce' = nonce]_vars

\* C12 witness: a getAccessToken has just returned the access token of a
\* rotated pair after one refresh call
C12_Witness ==
  /\ \E c \in CallIds :
       /\ Settled(calls[c], "getAccessToken")
       /\ Count(calls[c], "refreshtoken") = 1
       /\ calls[c].ret = AccessTok(1)
  /\ accessToken = AccessTok(1)
  /\ refreshToken = RefreshTok(1)
  /\ Authenticated

\* C13: with nothing else in flight, when the refresh call of a getAccessToken
\* reports failure or throws, the call returns the empty string after that one
\* refresh call, and the session is Unauthenticated with logoutReason
\* "access token error" and the four persisted slots absent.
C13_RefreshFailureCascade ==
  \A c \in CallIds :
    (/\ Settled(calls[c], "getAccessToken")
     /\ HasCalled(calls[c], "refreshtoken")
     /\ calls[c].ret.kind # "access") =>
       /\ calls[c].ret = EmptyString
       /\ Count(calls[c], "refreshtoken") = 1
       /\ Unauthenticated
       /\ authState.logoutReason = ACCESS_TOKEN_ERROR
       /\ AllSlotsAbsent

\* C14: at most one refresh call is in flight at any time.
C14_AtMostOneRefreshInFlight ==
  Cardinality({c \in CallIds :
                 calls[c].op = "getAccessToken" /\ calls[c].pc = "refresh"}) <= 1

\* C15: when a login succeeds after an Invalidate has removed the nonce it
\* persisted, or a refresh succeeds after an Invalidate has ended the session
\* it was started on, and nothing is in flight any more, the session is
\* Unauthenticated and the four persisted slots are absent.
C15_LastInvalidateWins ==
  [][((\/ \E c \in CallIds, u \in UserIds :
            nonce = Null /\ loginAuthenticateSettled(c, "ok", u)
       \/ \E c \in CallIds, g \in Gens :
            ~authState.isAuthenticated /\ getAccessTokenRefreshed(c, "success", g))
      /\ Quiescent') =>
        (Unauthenticated' /\ AllSlotsAbsent')]_vars

\* C16: with nothing else in flight, a login whose token exchange answers
\* status true returns true and leaves the session Authenticated with the user
\* made of the response's userId and the supplied username, the identity,
\* access and refresh slots holding the returned triple, and logoutReason "".
C16_LoginSuccess ==
  [][\A c \in CallIds, u \in UserIds :
       loginAuthenticateSettled(c, "ok", u) =>
         /\ Settled(calls'[c], "login")
         /\ calls'[c].ret = Bool(TRUE)
         /\ Authenticated'
         /\ authState'.user = [userId |-> u, username |-> calls[c].username]
         /\ idToken' = IdTok(calls[c].n.n)
         /\ accessToken' = AccessTok(0)
         /\ refreshToken' = RefreshTok(0)
         /\ authState'.logoutReason = ""]_vars

\* C17: a CODE login calls the token exchange only in the step in which the
\* pre-auth call answers status true, once, right after the pre-auth call and
\* with the code of that answer; when the pre-auth call answers status false
\* the login returns false without having called the token exchange; and no
\* step of the login up to the pre-auth answer writes the identity, access or
\* refresh slot.
C17_ExchangeAfterPreAuth ==
  [][\A c \in CallIds :
       /\ \A code \in Codes :
            loginPreAuthSettled(c, "ok", code) =>
              /\ calls'[c].pc = "authenticate"
              /\ LastCall(calls'[c]) = Call("authenticateUser", calls[c].n, code)
              /\ Count(calls'[c], "authenticateUser") = 1
              /\ idToken' = idToken
              /\ accessToken' = accessToken
              /\ refreshToken' = refreshToken
       /\ \A code \in Codes :
            loginPreAuthSettled(c, "reject", code) =>
              /\ Settled(calls'[c], "login")
              /\ calls'[c].ret = Bool(FALSE)
              /\ ~HasCalled(calls'[c], "authenticateUser")
              /\ idToken' = idToken
              /\ accessToken' = accessToken
              /\ refreshToken' = refreshToken
       /\ ((\E u \in Usernames : loginStart(c, u, CODE))
             \/ (\E o \in PkceOutcomes : loginPkceSettled(c, o))) =>
              /\ ~HasCalled(calls'[c], "authenticateUser")
              /\ idToken' = idToken
              /\ accessToken' = accessToken
              /\ refreshToken' = refreshToken
       /\ (/\ calls'[c].op = "login"
           /\ calls'[c].type = CODE
           /\ HasCalled(calls'[c], "authenticateUser")) =>
              /\ Len(calls'[c].log) = 3
              /\ calls'[c].log[2].fn = "getPreAuthCode"
              /\ calls'[c].log[3].fn = "authenticateUser"
              /\ calls'[c].log[3].code \in Codes]_vars

\* C17 witness: a CODE login awaits the token exchange it has called with the
\* code "C2" of the pre-auth answer
C17_Witness ==
  \E c \in CallIds :
    /\ calls[c].op = "login"
    /\ calls[c].type = CODE
    /\ calls[c].pc = "authenticate"
    /\ LastCall(calls[c]) = Call("authenticateUser", calls[c].n, "C2")

\* C18: with nothing else in flight, a getAccessToken on an Authenticated
\* session whose access token the validator accepts with a non-empty user-id
\* claim returns the persisted access token, has called nothing but the
\* validator, and leaves the session state and the four slots as they were.
C18_ValidTokenReturnedUnchanged ==
  [][\A c \in CallIds :
       /\ (Authenticated /\ accessToken # Null /\ getAccessTokenStart(c)) =>
            /\ Session' = Session
            /\ calls'[c].log = <<Call("verifyAndExtractToken", Null, "")>>
       /\ \A cl \in Claims :
            (/\ Authenticated
             /\ cl.userId # ""
             /\ getAccessTokenVerified(c, "jwt", cl)) =>
               /\ Session' = Session
               /\ Settled(calls'[c], "getAccessToken")
               /\ calls'[c].ret = accessToken
               /\ calls'[c].log = <<Call("verifyAndExtractToken", Null, "")>>]_vars

\* C18 witness: a getAccessToken has just returned the persisted access token
\* after the validator alone was called
C18_Witness ==
  /\ \E c \in CallIds :
       /\ Settled(calls[c], "getAccessToken")
       /\ calls[c].log = <<Call("verifyAndExtractToken", Null, "")>>
       /\ calls[c].ret = accessToken
  /\ accessToken # Null
  /\ Authenticated

\* C19: in every state in which nothing is in flight and the session is
\* Unauthenticated, the identity, access and refresh slots are absent.
C19_NoStaleTokens ==
  (Quiescent /\ Unauthenticated) =>
    (idToken = Null /\ accessToken = Null /\ refreshToken = Null)

\* C20: in every state in which nothing is in flight and the session is
\* Authenticated with an identity token issued to a login, the persisted nonce
\* is the nonce that login sent in its token exchange.
C20_NonceBinding ==
  (/\ Quiescent
   /\ Authenticated
   /\ idToken # Null
   /\ idToken.nonce > 0) =>
     nonce = Nonce(idToken.nonce)

=============================================================================
